---- MODULE Spec2Model ----
(***************************************************************************)
(* Model of the generic adjacency graph of ggraph.go: the node-to-index    *)
(* map, the adjacency table with its slice length and capacity, the        *)
(* mutators AddNode / AddEdge, the queries and the DTO conversions.        *)
(*                                                                         *)
(* Go slices are modelled as TLA+ sequences holding 0-based indices:       *)
(* position i of a Go slice s is s[i + 1] here.  An index expression that  *)
(* Go would reject at run time (index out of range) is a panic; an         *)
(* operation that panics keeps every assignment made before the faulting   *)
(* statement and reports panic = TRUE.                                     *)
(***************************************************************************)
EXTENDS Integers, Sequences, FiniteSets, TLC

\* ---------------------------------------------------------------- bounds
\* Node values are the ints 0 .. NumValues-1 (T = int; 0 is T's zero value).
NumValues == 2
\* AddEdge calls made on the graph under test.
MaxEdges == 2
\* append may give a slice any capacity >= its new length; the model lets the
\* runtime pick newLen .. newLen + CapSlack.
CapSlack == 1
\* A hand-written DTO given to NewGraphByDTO: at most MaxDTONodes node values
\* and MaxDTOAdj adjacency rows.
MaxDTONodes == 2
MaxDTOAdj == 2
\* A list given to NewGraphByNodeList: at most MaxItems items.
MaxItems == 2

Values == 0 .. (NumValues - 1)
Slacks == 0 .. CapSlack

VARIABLES
    g,      \* the Graph: [nodes: map T -> int, adj: [][]int, cap: cap(adj)]
    calls,  \* history: for each value v, the AddEdge(v, to) calls made, in order
    seen,   \* history: every value passed to AddNode or as an AddEdge endpoint
    last,   \* the last operation called, its arguments and what it returned
    inserted,  \* history: the distinct values passed so far, in order of first use
    held    \* a query result the caller has kept, and the storage it views

vars == <<g, calls, seen, last, inserted, held>>

\* ------------------------------------------------------------- Go helpers
\* s[i] for a Go slice s (0-based); only evaluated when InRange(s, i).
At(s, i) == s[i + 1]
InRange(s, i) == i >= 0 /\ i < Len(s)

\* m[k] on a Go map of ints: the zero value 0 when k is absent.
Lookup(m, k) == IF k \in DOMAIN m THEN m[k] ELSE 0

\* make([][]int, n): n nil entries.
MakeAdj(n) == [i \in 1 .. n |-> <<>>]

\* The capacity the runtime gives a slice grown by append to newLen.
GrowCap(newLen, slack) == newLen + slack

RECURSIVE SumLen(_)
SumLen(s) == IF s = <<>> THEN 0 ELSE Len(Head(s)) + SumLen(Tail(s))

\* ------------------------------------------------------------------ Graph
NewGraph == [nodes |-> <<>>, adj |-> <<>>, cap |-> 0]

\* A NodeCount that counts adjacency entries instead of map keys.
NodeCountByAdj(gr) == Len(gr.adj)

\* NodeCount (ggraph.go 168-170).
NodeCount(gr) == Cardinality(DOMAIN gr.nodes)

HasNode(gr, node) == node \in DOMAIN gr.nodes

\* An AddNode without the existence check: a node added again is renumbered.
AddNodeNoCheck(gr, node, slack) ==
    LET index == Cardinality(DOMAIN gr.nodes)
        nodes2 == [x \in (DOMAIN gr.nodes) \cup {node} |->
                      IF x = node THEN index ELSE gr.nodes[x]]
    IN  IF index >= gr.cap
        THEN [nodes |-> nodes2,
              adj   |-> gr.adj \o [i \in 1 .. index + 1 |-> <<>>],
              cap   |-> Len(gr.adj) + index + 1 + slack]
        ELSE [nodes |-> nodes2, adj |-> gr.adj, cap |-> gr.cap]

\* AddNode (ggraph.go 85-97).  slack is the runtime's choice of capacity
\* when the append reallocates.
AddNode(gr, node, slack) ==
    IF node \in DOMAIN gr.nodes
    THEN gr
    ELSE LET index == Cardinality(DOMAIN gr.nodes)
             nodes2 == [x \in (DOMAIN gr.nodes) \cup {node} |->
                           IF x = node THEN index ELSE gr.nodes[x]]
         IN  IF index >= gr.cap
             THEN [nodes |-> nodes2,
                   adj   |-> gr.adj \o MakeAdj(index + 1),
                   cap   |-> GrowCap(Len(gr.adj) + index + 1, slack)]
             ELSE [nodes |-> nodes2, adj |-> gr.adj, cap |-> gr.cap]

\* The capacities the runtime may choose when AddNode(gr, node) appends; a
\* single dummy choice when it does not append.
Grows(gr, node) ==
    node \notin DOMAIN gr.nodes /\ Cardinality(DOMAIN gr.nodes) >= gr.cap
SlackChoices(gr, node) == IF Grows(gr, node) THEN Slacks ELSE {0}

\* An AddEdge that stores the edge in the wrong direction.
AddEdgeReversed(gr, from, to, s1, s2) ==
    LET g1 == AddNode(gr, from, s1)
        g2 == AddNode(g1, to, s2)
        fromIndex == g2.nodes[from]
        toIndex == g2.nodes[to]
    IN  IF ~InRange(g2.adj, toIndex)
        THEN [g |-> g2, panic |-> TRUE]
        ELSE [g |-> [g2 EXCEPT !.adj[toIndex + 1] = Append(@, fromIndex)],
              panic |-> FALSE]

\* An AddEdge that stores the target value in place of its index.
AddEdgeStoresNode(gr, from, to, s1, s2) ==
    LET g1 == AddNode(gr, from, s1)
        g2 == AddNode(g1, to, s2)
        fromIndex == g2.nodes[from]
    IN  IF ~InRange(g2.adj, fromIndex)
        THEN [g |-> g2, panic |-> TRUE]
        ELSE [g |-> [g2 EXCEPT !.adj[fromIndex + 1] = Append(@, to)],
              panic |-> FALSE]

\* An AddEdge that inserts the target before the source.
AddEdgeToFirst(gr, from, to, s1, s2) ==
    LET g1 == AddNode(gr, to, s1)
        g2 == AddNode(g1, from, s2)
        fromIndex == g2.nodes[from]
        toIndex == g2.nodes[to]
    IN  IF ~InRange(g2.adj, fromIndex)
        THEN [g |-> g2, panic |-> TRUE]
        ELSE [g |-> [g2 EXCEPT !.adj[fromIndex + 1] = Append(@, toIndex)],
              panic |-> FALSE]

\* AddEdge (ggraph.go 100-108): the result graph and whether
\* g.adj[fromIndex] was out of range.
AddEdge(gr, from, to, s1, s2) ==
    LET g1 == AddNode(gr, from, s1)
        g2 == AddNode(g1, to, s2)
        fromIndex == g2.nodes[from]
        toIndex == g2.nodes[to]
    IN  IF ~InRange(g2.adj, fromIndex)
        THEN [g |-> g2, panic |-> TRUE]
        ELSE [g |-> [g2 EXCEPT !.adj[fromIndex + 1] = Append(@, toIndex)],
              panic |-> FALSE]

\* EdgeCount (ggraph.go 173-179).
EdgeCount(gr) == SumLen(gr.adj)

\* -------------------------------------------------------------- queries
\* A query result: the returned value, or a panic (index out of range).
Ret(v) == [panic |-> FALSE, val |-> v]
Panic == [panic |-> TRUE, val |-> "panic"]

RECURSIVE Flatten(_)
Flatten(ss) == IF ss = <<>> THEN <<>> ELSE Head(ss) \o Flatten(Tail(ss))

\* indexToNode of Edges and String (ggraph.go 124-127, 149-152): a slice of
\* len(g.nodes) values, position idx holding the node whose index is idx and
\* T's zero value where no node has that index.
IndexToNode(gr) ==
    [i \in 1 .. Cardinality(DOMAIN gr.nodes) |->
        IF \E v \in DOMAIN gr.nodes : gr.nodes[v] = i - 1
        THEN CHOOSE v \in DOMAIN gr.nodes : gr.nodes[v] = i - 1
        ELSE 0]

\* Nodes (ggraph.go 111-117): the keys in the order the map iteration yields
\* them.
Nodes(gr, order) == order

\* Edges (ggraph.go 121-136).
Edges(gr) ==
    LET indexToNode == IndexToNode(gr)
        row(from) == [k \in 1 .. Len(At(gr.adj, from)) |->
                         [From |-> At(indexToNode, from),
                          To   |-> At(indexToNode, At(At(gr.adj, from), k - 1))]]
    IN  IF \/ \E v \in DOMAIN gr.nodes : ~InRange(indexToNode, gr.nodes[v])
           \/ \E from \in 0 .. Len(gr.adj) - 1 :
                 \/ ~InRange(indexToNode, from)
                 \/ \E k \in 1 .. Len(At(gr.adj, from)) :
                       ~InRange(indexToNode, At(At(gr.adj, from), k - 1))
        THEN Panic
        ELSE Ret(Flatten([i \in 1 .. Len(gr.adj) |-> row(i - 1)]))

\* Neighbors (ggraph.go 182-199): an absent node reads index 0 from the map;
\* a neighbour index that no node carries is skipped.
Neighbors(gr, node) ==
    LET index == Lookup(gr.nodes, node)
        neighborIndices == At(gr.adj, index)
        found(neighborIndex) ==
            IF \E v \in DOMAIN gr.nodes : gr.nodes[v] = neighborIndex
            THEN <<CHOOSE v \in DOMAIN gr.nodes : gr.nodes[v] = neighborIndex>>
            ELSE <<>>
    IN  IF ~InRange(gr.adj, index)
        THEN Panic
        ELSE Ret(Flatten([k \in 1 .. Len(neighborIndices) |->
                             found(neighborIndices[k])]))

\* HasEdge (ggraph.go 208-217).
HasEdge(gr, from, to) ==
    IF ~HasNode(gr, from) \/ ~HasNode(gr, to)
    THEN Ret(FALSE)
    ELSE LET fromIndex == gr.nodes[from]
             toIndex == gr.nodes[to]
         IN  IF ~InRange(gr.adj, fromIndex)
             THEN Panic
             ELSE Ret(\E k \in 1 .. Len(At(gr.adj, fromIndex)) :
                          At(gr.adj, fromIndex)[k] = toIndex)

\* The strings of ss one after the other, as strings.Builder collects them.
RECURSIVE Concat(_)
Concat(ss) == IF ss = <<>> THEN "" ELSE Head(ss) \o Concat(Tail(ss))

\* The strings of ss with ", " written after each but the last
\* (ggraph.go 158-160).
RECURSIVE JoinComma(_)
JoinComma(ss) ==
    IF ss = <<>> THEN ""
    ELSE IF Len(ss) = 1 THEN Head(ss)
    ELSE Head(ss) \o ", " \o JoinComma(Tail(ss))

\* String (ggraph.go 145-165): %v of an int node is its decimal form.
String(gr) ==
    LET indexToNode == IndexToNode(gr)
        neighbors(idx) == At(gr.adj, idx)
        line(idx) ==
            "  " \o ToString(At(indexToNode, idx)) \o ": ["
                 \o JoinComma([i \in 1 .. Len(neighbors(idx)) |->
                                  ToString(At(indexToNode, neighbors(idx)[i]))])
                 \o "]\n"
    IN  IF \/ \E v \in DOMAIN gr.nodes : ~InRange(indexToNode, gr.nodes[v])
           \/ \E idx \in 0 .. Len(indexToNode) - 1 :
                 \/ ~InRange(gr.adj, idx)
                 \/ \E i \in 1 .. Len(neighbors(idx)) :
                       ~InRange(indexToNode, neighbors(idx)[i])
        THEN Panic
        ELSE Ret("Graph:\n" \o Concat([k \in 1 .. Len(indexToNode) |-> line(k - 1)]))

\* ------------------------------------------------------------------- DTO
\* The orders in which a range over the map S may yield its keys.
Orders(S) ==
    {o \in [1 .. Cardinality(S) -> S] : \A i, j \in DOMAIN o : i # j => o[i] # o[j]}

\* ToDTO (ggraph.go 221-231): the keys in map iteration order, and g.adj.
ToDTO(gr, order) == [Nodes |-> order, Adj |-> gr.adj]

\* The (i, neighborIndex) pairs of dto.Adj in the order the loops of
\* NewGraphByDTO visit them.
AdjPairs(dto) ==
    Flatten([i \in 1 .. Len(dto.Adj) |->
                [k \in 1 .. Len(dto.Adj[i]) |-> <<i - 1, dto.Adj[i][k]>>]])

RECURSIVE AddNodes(_, _, _)
AddNodes(gr, ns, slack) ==
    IF ns = <<>> THEN gr ELSE AddNodes(AddNode(gr, Head(ns), slack), Tail(ns), slack)

\* The edge loop of NewGraphByDTO (ggraph.go 66-72) over the remaining pairs.
RECURSIVE ImportEdges(_, _, _, _)
ImportEdges(gr, dto, pairs, slack) ==
    IF pairs = <<>>
    THEN [g |-> gr, panic |-> FALSE]
    ELSE LET i == Head(pairs)[1]
             neighborIndex == Head(pairs)[2]
         IN  IF neighborIndex < Len(dto.Nodes)
             THEN IF ~InRange(dto.Nodes, i) \/ ~InRange(dto.Nodes, neighborIndex)
                  THEN [g |-> gr, panic |-> TRUE]
                  ELSE LET r == AddEdge(gr, At(dto.Nodes, i),
                                        At(dto.Nodes, neighborIndex), slack, slack)
                       IN  IF r.panic
                           THEN r
                           ELSE ImportEdges(r.g, dto, Tail(pairs), slack)
             ELSE ImportEdges(gr, dto, Tail(pairs), slack)

\* NewGraphByDTO (ggraph.go 58-74); slack is the capacity rounding of the
\* runtime during this import.
NewGraphByDTO(dto, slack) ==
    ImportEdges(AddNodes(NewGraph, dto.Nodes, slack), dto, AdjPairs(dto), slack)

\* The inner loop of NewGraphByNodeList (ggraph.go 47-51) over the remaining
\* edges of one item.
RECURSIVE ListEdges(_, _, _)
ListEdges(gr, edges, slack) ==
    IF edges = <<>>
    THEN [g |-> gr, panic |-> FALSE]
    ELSE LET edge == Head(edges)
             g1 == AddNode(gr, edge.From, slack)
             g2 == AddNode(g1, edge.To, slack)
             r == AddEdge(g2, edge.From, edge.To, slack, slack)
         IN  IF r.panic THEN r ELSE ListEdges(r.g, Tail(edges), slack)

\* The outer loop of NewGraphByNodeList (ggraph.go 45-52) over the remaining
\* items.
RECURSIVE ListItems(_, _, _)
ListItems(gr, l, slack) ==
    IF l = <<>>
    THEN [g |-> gr, panic |-> FALSE]
    ELSE LET node == Head(l)
             r == ListEdges(AddNode(gr, node.This, slack), node.Edges, slack)
         IN  IF r.panic THEN r ELSE ListItems(r.g, Tail(l), slack)

\* NewGraphByNodeList (ggraph.go 41-54); an item is a record of its This()
\* and its Edges(); slack is the capacity rounding of the runtime during
\* this import.
NewGraphByNodeList(l, slack) == ListItems(NewGraph, l, slack)

\* ---------------------------------------------------------------- actions
NoCalls == [v \in Values |-> <<>>]
NoHeld == [op |-> "none", args |-> <<>>, val |-> <<>>, orig |-> <<>>, shared |-> FALSE]

\* The values in order of first use, after v has been passed to a call.
Passed(o, v) == IF \E i \in DOMAIN o : o[i] = v THEN o ELSE Append(o, v)

\* A result the caller keeps.  Only the Adj of a DTO is the graph's own slice
\* (ggraph.go 229); Nodes, Neighbors and Edges return slices they made.
Shares(op) == op = "ToDTO"
Kept(op, args, v) ==
    [op |-> op, args |-> args, val |-> v, orig |-> v, shared |-> Shares(op)]

\* A kept result when every query hands out a live view of the graph.
HeldAfterLive(h, old, new) ==
    IF h.op = "ToDTO" THEN [h EXCEPT !.val.Adj = new.adj]
    ELSE IF h.op = "Neighbors" /\ InRange(new.adj, Lookup(new.nodes, h.args[1]))
         THEN [h EXCEPT !.val = Neighbors(new, h.args[1]).val]
    ELSE IF h.op = "Edges" /\ ~Edges(new).panic
         THEN [h EXCEPT !.val = Edges(new).val]
    ELSE h

\* The result the caller holds after the graph went from old to new.  A
\* result that shares the backing array of g.adj (the Adj of a DTO, ggraph.go
\* 229) sees every element the graph writes (ggraph.go 107) until an append
\* moves g.adj to a new array (ggraph.go 95); a result built with make
\* (ggraph.go 112, 122, 188, 222) shares nothing.
HeldAfter(h, old, new) ==
    IF ~h.shared
    THEN h
    ELSE IF Len(new.adj) > Len(old.adj)
         THEN [h EXCEPT !.shared = FALSE]
         ELSE [h EXCEPT !.val.Adj = new.adj]

CallsMade == SumLen([i \in 1 .. NumValues |-> calls[i - 1]])

Init ==
    /\ g = NewGraph
    /\ calls = NoCalls
    /\ seen = {}
    /\ last = [op |-> "NewGraph", args |-> <<>>, ret |-> "none", panic |-> FALSE]
    /\ inserted = <<>>
    /\ held = NoHeld

CallAddNode ==
    \E node \in Values : \E slack \in SlackChoices(g, node) :
        /\ g' = AddNode(g, node, slack)
        /\ seen' = seen \cup {node}
        /\ last' = [op |-> "AddNode", args |-> <<node>>, ret |-> "none",
                    panic |-> FALSE]
        /\ inserted' = Passed(inserted, node)
        /\ held' = HeldAfter(held, g, g')
        /\ UNCHANGED calls

CallAddEdge ==
    \E from \in Values, to \in Values :
    \E s1 \in SlackChoices(g, from) :
    \E s2 \in SlackChoices(AddNode(g, from, s1), to) :
        LET r == AddEdge(g, from, to, s1, s2) IN
        /\ CallsMade < MaxEdges
        /\ g' = r.g
        /\ seen' = seen \cup {from, to}
        /\ calls' = [calls EXCEPT ![from] = Append(@, [to |-> to, ok |-> ~r.panic])]
        /\ last' = [op |-> "AddEdge", args |-> <<from, to>>, ret |-> "none",
                    panic |-> r.panic]
        /\ inserted' = Passed(Passed(inserted, from), to)
        /\ held' = HeldAfter(held, g, g')

Called(op, args, r) == [op |-> op, args |-> args, ret |-> r.val, panic |-> r.panic]

CallHasNode ==
    \E node \in Values :
        /\ last' = Called("HasNode", <<node>>, Ret(HasNode(g, node)))
        /\ UNCHANGED <<g, calls, seen, inserted, held>>

CallHasEdge ==
    \E from \in Values, to \in Values :
        /\ last' = Called("HasEdge", <<from, to>>, HasEdge(g, from, to))
        /\ UNCHANGED <<g, calls, seen, inserted, held>>

CallNodeCount ==
    /\ last' = Called("NodeCount", <<>>, Ret(NodeCount(g)))
    /\ UNCHANGED <<g, calls, seen, inserted, held>>

CallEdgeCount ==
    /\ last' = Called("EdgeCount", <<>>, Ret(EdgeCount(g)))
    /\ UNCHANGED <<g, calls, seen, inserted, held>>

CallEdges ==
    /\ last' = Called("Edges", <<>>, Edges(g))
    /\ UNCHANGED <<g, calls, seen, inserted, held>>

\* A Neighbors whose lookup of an absent value enters it in the map.
CallNeighborsInserting ==
    \E node \in Values :
        /\ last' = Called("Neighbors", <<node>>, Neighbors(g, node))
        /\ g' = IF node \in DOMAIN g.nodes
                THEN g
                ELSE [g EXCEPT !.nodes = (node :> 0) @@ g.nodes]
        /\ UNCHANGED <<calls, seen, inserted, held>>

CallNeighbors ==
    \E node \in Values :
        /\ last' = Called("Neighbors", <<node>>, Neighbors(g, node))
        /\ UNCHANGED <<g, calls, seen, inserted, held>>

CallNodes ==
    \E order \in Orders(DOMAIN g.nodes) :
        /\ last' = Called("Nodes", <<>>, Ret(Nodes(g, order)))
        /\ UNCHANGED <<g, calls, seen, inserted, held>>

CallString ==
    /\ last' = Called("String", <<>>, String(g))
    /\ UNCHANGED <<g, calls, seen, inserted, held>>

CallToDTO ==
    \E order \in Orders(DOMAIN g.nodes) :
        /\ last' = Called("ToDTO", <<>>, Ret(ToDTO(g, order)))
        /\ UNCHANGED <<g, calls, seen, inserted, held>>

\* NewGraphByDTO applied to the DTO just obtained (from ToDTO, or given by
\* the caller); the graph it returns is a new one, so g is left alone.
CallNewGraphByDTO ==
    /\ last.op \in {"ToDTO", "DTO"}
    /\ \E slack \in Slacks :
        LET r == NewGraphByDTO(last.ret, slack) IN
        /\ last' = Called("NewGraphByDTO", <<last.ret>>,
                          [panic |-> r.panic, val |-> r.g])
        /\ UNCHANGED <<g, calls, seen, inserted, held>>

\* NewGraphByNodeList applied to the list the caller gives; the graph it
\* returns is a new one.
CallNewGraphByNodeList ==
    /\ last.op = "List"
    /\ \E slack \in Slacks :
        LET r == NewGraphByNodeList(last.ret, slack) IN
        /\ last' = Called("NewGraphByNodeList", <<last.ret>>,
                          [panic |-> r.panic, val |-> r.g])
        /\ UNCHANGED <<g, calls, seen, inserted, held>>

\* The caller keeps the slice Nodes() returned, while another edge can
\* still be added after it.
KeepNodes ==
    /\ CallsMade < MaxEdges
    /\ \E order \in Orders(DOMAIN g.nodes) :
          /\ last' = Called("Nodes", <<>>, Ret(Nodes(g, order)))
          /\ held' = Kept("Nodes", <<>>, Nodes(g, order))
    /\ UNCHANGED <<g, calls, seen, inserted>>

\* The caller keeps the slice Neighbors(node) returned (nothing when it
\* panicked).
KeepNeighbors ==
    /\ CallsMade < MaxEdges
    /\ \E node \in Values :
          LET r == Neighbors(g, node) IN
          /\ last' = Called("Neighbors", <<node>>, r)
          /\ held' = IF r.panic THEN held ELSE Kept("Neighbors", <<node>>, r.val)
    /\ UNCHANGED <<g, calls, seen, inserted>>

\* The caller keeps the slice Edges() returned (nothing when it panicked).
KeepEdges ==
    /\ CallsMade < MaxEdges
    /\ LET r == Edges(g) IN
          /\ last' = Called("Edges", <<>>, r)
          /\ held' = IF r.panic THEN held ELSE Kept("Edges", <<>>, r.val)
    /\ UNCHANGED <<g, calls, seen, inserted>>

\* The caller keeps the DTO ToDTO() returned.
KeepDTO ==
    /\ CallsMade < MaxEdges
    /\ \E order \in Orders(DOMAIN g.nodes) :
          /\ last' = Called("ToDTO", <<>>, Ret(ToDTO(g, order)))
          /\ held' = Kept("ToDTO", <<>>, ToDTO(g, order))
    /\ UNCHANGED <<g, calls, seen, inserted>>

\* The caller overwrites one element of the slice of nodes or edges it
\* keeps, s[p] = x, and lets go of it.  The slice was allocated by the query,
\* so the write stays in the caller's slice.
CallerWrites ==
    /\ held.op \in {"Nodes", "Neighbors", "Edges"}
    /\ held.val # <<>>
    /\ g' = g
    /\ held' = NoHeld
    /\ last' = [op |-> "Write", args |-> <<held.op>>, ret |-> "none", panic |-> FALSE]
    /\ UNCHANGED <<calls, seen, inserted>>

\* The caller empties one row of the DTO it keeps, d.Adj[p] = nil, and lets
\* go of it.  The write reaches the graph while d.Adj shares its array with
\* g.adj.
CallerWritesDTO ==
    /\ held.op = "ToDTO"
    /\ \E p \in DOMAIN held.val.Adj :
          /\ held.val.Adj[p] # <<>>
          /\ g' = IF held.shared THEN [g EXCEPT !.adj[p] = <<>>] ELSE g
    /\ held' = NoHeld
    /\ last' = [op |-> "Write", args |-> <<held.op>>, ret |-> "none", panic |-> FALSE]
    /\ UNCHANGED <<calls, seen, inserted>>

\* The mutators alone.
Next ==
    \/ CallAddNode
    \/ CallAddEdge

Spec == Init /\ [][Next]_vars

\* The mutators together with the queries.
NextQ ==
    \/ CallAddNode
    \/ CallAddEdge
    \/ CallHasNode
    \/ CallHasEdge
    \/ CallNodeCount
    \/ CallEdgeCount
    \/ CallEdges
    \/ CallNeighbors

SpecQ == Init /\ [][NextQ]_vars

\* The mutators together with every query.
NextAll ==
    \/ CallAddNode
    \/ CallAddEdge
    \/ CallNodes
    \/ CallEdges
    \/ CallNeighbors
    \/ CallHasNode
    \/ CallHasEdge
    \/ CallNodeCount
    \/ CallEdgeCount
    \/ CallString
    \/ CallToDTO

SpecAll == Init /\ [][NextAll]_vars

\* The mutators together with export and re-import.
NextDTO ==
    \/ CallAddNode
    \/ CallAddEdge
    \/ CallToDTO
    \/ CallNewGraphByDTO

SpecDTO == Init /\ [][NextDTO]_vars

\* The mutators together with a caller that keeps query results and writes
\* to them.
NextSnap ==
    \/ CallAddNode
    \/ CallAddEdge
    \/ KeepNodes
    \/ KeepNeighbors
    \/ KeepEdges
    \/ CallerWrites

SpecSnap == Init /\ [][NextSnap]_vars

\* The mutators together with a caller that keeps the DTO and writes to it.
NextAlias ==
    \/ CallAddNode
    \/ CallAddEdge
    \/ KeepDTO
    \/ CallerWritesDTO

SpecAlias == Init /\ [][NextAlias]_vars

\* NewGraphByDTO on any DTO a caller may hand it, well-formed or not.
DTOIndices == -1 .. MaxDTONodes
DTORows == {<<>>} \cup {<<j>> : j \in DTOIndices}
SeqsUpTo(S, n) == UNION {[1 .. k -> S] : k \in 0 .. n}
DTOs == [Nodes : SeqsUpTo(Values, MaxDTONodes), Adj : SeqsUpTo(DTORows, MaxDTOAdj)]

InitImport ==
    /\ g = NewGraph
    /\ calls = NoCalls
    /\ seen = {}
    /\ \E dto \in DTOs :
          last = [op |-> "DTO", args |-> <<>>, ret |-> dto, panic |-> FALSE]
    /\ inserted = <<>>
    /\ held = NoHeld

NextImport == CallNewGraphByDTO

SpecImport == InitImport /\ [][NextImport]_vars

\* NewGraphByNodeList on any list a caller may hand it.
EdgeValues == [From : Values, To : Values]

\* What an item's Edges() returns: no edge, one edge, or an edge followed by
\* its reverse (the same edge twice when it is a loop).
ItemEdges ==
    {<<>>} \cup {<<e>> : e \in EdgeValues}
           \cup {<<e, [From |-> e.To, To |-> e.From]>> : e \in EdgeValues}
Items == [This : Values, Edges : ItemEdges]
NodeLists == SeqsUpTo(Items, MaxItems)

InitList ==
    /\ g = NewGraph
    /\ calls = NoCalls
    /\ seen = {}
    /\ \E l \in NodeLists :
          last = [op |-> "List", args |-> <<>>, ret |-> l, panic |-> FALSE]
    /\ inserted = <<>>
    /\ held = NoHeld

NextList == CallNewGraphByNodeList

SpecList == InitList /\ [][NextList]_vars

\* The history of the calls by which a constructor built gr: the values in
\* index order, and for each node the targets of its stored edges.
BuiltOrder(gr) == IndexToNode(gr)
BuiltCalls(gr) ==
    [v \in Values |->
        IF v \in DOMAIN gr.nodes /\ InRange(gr.adj, gr.nodes[v])
        THEN [k \in 1 .. Len(At(gr.adj, gr.nodes[v])) |->
                 [to |-> At(BuiltOrder(gr), At(gr.adj, gr.nodes[v])[k]), ok |-> TRUE]]
        ELSE <<>>]

\* The program obtains its graph from NewGraphByDTO instead of NewGraph: the
\* constructor starts from NewGraph() and returns the graph it built, or
\* panics and returns none.
BuildByDTO ==
    /\ last.op = "NewGraph"
    /\ \E dto \in DTOs : \E slack \in Slacks :
        LET r == NewGraphByDTO(dto, slack)
            built == IF r.panic THEN g ELSE r.g
        IN  /\ g' = built
            /\ calls' = BuiltCalls(built)
            /\ seen' = DOMAIN built.nodes
            /\ inserted' = BuiltOrder(built)
            /\ last' = [op |-> "NewGraphByDTO", args |-> <<>>, ret |-> "none",
                        panic |-> r.panic]
            /\ UNCHANGED held

\* The program obtains its graph from NewGraphByNodeList.
BuildByNodeList ==
    /\ last.op = "NewGraph"
    /\ \E l \in NodeLists : \E slack \in Slacks :
        LET r == NewGraphByNodeList(l, slack)
            built == IF r.panic THEN g ELSE r.g
        IN  /\ g' = built
            /\ calls' = BuiltCalls(built)
            /\ seen' = DOMAIN built.nodes
            /\ inserted' = BuiltOrder(built)
            /\ last' = [op |-> "NewGraphByNodeList", args |-> <<>>, ret |-> "none",
                        panic |-> r.panic]
            /\ UNCHANGED held

\* A graph from any of the three constructors, then the mutators.
NextBuild ==
    \/ BuildByDTO
    \/ BuildByNodeList
    \/ CallAddNode
    \/ CallAddEdge

SpecBuild == Init /\ [][NextBuild]_vars

\* ================================================================ claims
\* The number of from->to edges a graph holds (0 when an endpoint is absent).
EdgeMult(gr, from, to) ==
    IF from \in DOMAIN gr.nodes /\ to \in DOMAIN gr.nodes
       /\ InRange(gr.adj, gr.nodes[from])
    THEN Cardinality({k \in 1 .. Len(At(gr.adj, gr.nodes[from])) :
                         At(gr.adj, gr.nodes[from])[k] = gr.nodes[to]})
    ELSE 0

Range(s) == {s[i] : i \in DOMAIN s}

\* C1: re-importing the DTO that ToDTO returned for g, whatever order the map
\* iteration gave its Nodes, yields a graph with the node set of g and, for
\* every pair (from, to), as many from->to edges as g.
C1_RoundTrip ==
    last.op = "NewGraphByDTO" =>
        /\ ~last.panic
        /\ DOMAIN last.ret.nodes = DOMAIN g.nodes
        /\ \A from \in Values, to \in Values :
              EdgeMult(last.ret, from, to) = EdgeMult(g, from, to)

\* C2: the adjacency table has exactly one entry per node.
C2_AdjLenIsNodeCount == Len(g.adj) = Cardinality(DOMAIN g.nodes)

\* The edges of the AddEdge calls made so far, by ascending index of the
\* source node and, within one source, in call order.
CalledEdges ==
    LET n == Cardinality(DOMAIN g.nodes)
        src(i) == CHOOSE v \in DOMAIN g.nodes : g.nodes[v] = i
    IN  Flatten([i \in 1 .. n |->
                    [k \in 1 .. Len(calls[src(i - 1)]) |->
                        [From |-> src(i - 1), To |-> calls[src(i - 1)][k].to]]])

\* C3: Edges() never faults and returns one Edge per AddEdge call made, by
\* ascending source index and then in call order.
C3_EdgesComplete ==
    last.op = "Edges" => (~last.panic /\ last.ret = CalledEdges)

\* C4: Neighbors(v) of a value that is not a node returns an empty sequence
\* and never faults.
C4_NeighborsOfAbsent ==
    (last.op = "Neighbors" /\ last.args[1] \notin DOMAIN g.nodes) =>
        (~last.panic /\ last.ret = <<>>)

\* C5: once AddEdge(from, to) has returned, HasEdge(from, to), HasNode(from)
\* and HasNode(to) are true, right after the call and after every later call.
C5_EdgeStays ==
    \A from \in Values : \A k \in DOMAIN calls[from] :
        calls[from][k].ok =>
            /\ HasEdge(g, from, calls[from][k].to) = Ret(TRUE)
            /\ HasNode(g, from)
            /\ HasNode(g, calls[from][k].to)

\* C5 witness: a self-loop and an edge between two distinct nodes have both
\* been added, the second by the call that has just returned.
C5_Witness ==
    /\ last.op = "AddEdge" /\ ~last.panic
    /\ \E v \in Values : \E k \in DOMAIN calls[v] : calls[v][k] = [to |-> v, ok |-> TRUE]
    /\ \E v \in Values : \E k \in DOMAIN calls[v] : calls[v][k].ok /\ calls[v][k].to # v

\* C6: the index of every node is a valid position of the adjacency table,
\* so AddEdge never faults, whatever capacity append gave the table.
C6_AddEdgeNeverFaults ==
    /\ \A v \in DOMAIN g.nodes : InRange(g.adj, g.nodes[v])
    /\ (last.op = "AddEdge" => ~last.panic)

\* C7: NodeCount() is the number of distinct values passed to AddNode or as
\* an endpoint to AddEdge, and no call decreases it.
C7_NodeCount ==
    /\ [](NodeCount(g) = Cardinality(seen))
    /\ [][NodeCount(g') >= NodeCount(g)]_vars

\* C7 witness: three calls with two distinct values between them, one of the
\* values introduced by AddEdge.
C7_Witness ==
    /\ last.op = "AddNode"
    /\ Cardinality(seen) = 2
    /\ CallsMade = 1
    /\ NodeCount(g) = 2

\* C8: EdgeCount() is the number of AddEdge calls made.
C8_EdgeCountIsCalls == EdgeCount(g) = CallsMade

\* C9: AddNode(v) of a value that is already a node leaves the graph (map,
\* adjacency table and its capacity) unchanged.
C9_AddNodeIdempotent ==
    [][(last'.op = "AddNode" /\ last'.args[1] \in DOMAIN g.nodes) => g' = g]_vars

\* C9 witness: AddNode has just been called with a node that is not the
\* newest one (so it was a node before the call) and that has an edge.
C9_Witness ==
    /\ last.op = "AddNode"
    /\ g.nodes[last.args[1]] < Cardinality(DOMAIN g.nodes) - 1
    /\ EdgeMult(g, last.args[1], last.args[1]) = 1

\* The number of entries (i, j) of dto.Adj, both valid positions of
\* dto.Nodes, that stand for the edge from->to.
ValidEntries(dto, from, to) ==
    LET pairs == AdjPairs(dto)
    IN  Cardinality({p \in DOMAIN pairs :
            /\ InRange(dto.Nodes, pairs[p][1])
            /\ InRange(dto.Nodes, pairs[p][2])
            /\ At(dto.Nodes, pairs[p][1]) = from
            /\ At(dto.Nodes, pairs[p][2]) = to})

\* C10: NewGraphByDTO completes on every DTO, makes every Nodes value a node
\* and adds an edge for exactly the entries whose two positions are valid.
C10_ImportTotal ==
    last.op = "NewGraphByDTO" =>
        /\ ~last.panic
        /\ DOMAIN last.ret.nodes = Range(last.args[1].Nodes)
        /\ \A from \in Values, to \in Values :
              EdgeMult(last.ret, from, to) = ValidEntries(last.args[1], from, to)
\* C11: the k-th distinct value inserted (from 0; AddEdge inserts from, then
\* to) has index k, so the indices in use are exactly 0 .. NodeCount()-1 with
\* no two nodes sharing one; and no call changes the index of a node.
C11_IndexAssignment ==
    /\ [](/\ DOMAIN g.nodes = Range(inserted)
          /\ \A k \in DOMAIN inserted : g.nodes[inserted[k]] = k - 1)
    /\ [][\A v \in DOMAIN g.nodes :
             v \in DOMAIN g'.nodes /\ g'.nodes[v] = g.nodes[v]]_vars

\* C11 witness: AddEdge has inserted both of its endpoints, the source (the
\* larger value) before the target, and a later call has passed them again.
C11_Witness ==
    /\ last.op = "AddEdge"
    /\ CallsMade = 2
    /\ Len(inserted) = 2
    /\ inserted[1] > inserted[2]
    /\ calls[inserted[1]][1].to = inserted[2]
\* C12: every DTO that ToDTO may return is index-aligned: Nodes holds each
\* node once, Adj has one row per position of Nodes, Nodes[i] is the node with
\* graph index i, and every j in Adj[i] is a position of Nodes with an edge
\* Nodes[i] -> Nodes[j] in the graph.
C12_ExportAligned ==
    last.op = "ToDTO" =>
        LET d == last.ret IN
        /\ Range(d.Nodes) = DOMAIN g.nodes
        /\ Len(d.Nodes) = Cardinality(DOMAIN g.nodes)
        /\ Len(d.Adj) = Len(d.Nodes)
        /\ \A i \in DOMAIN d.Nodes : g.nodes[d.Nodes[i]] = i - 1
        /\ \A i \in DOMAIN d.Adj : \A k \in DOMAIN d.Adj[i] :
              /\ InRange(d.Nodes, i - 1)
              /\ InRange(d.Nodes, d.Adj[i][k])
              /\ EdgeMult(g, At(d.Nodes, i - 1), At(d.Nodes, d.Adj[i][k])) > 0
\* C13: a sequence returned by Nodes(), Neighbors(v) or Edges() is not
\* changed by later AddNode/AddEdge calls, and a write to it does not change
\* the graph.
C13_QuerySnapshots ==
    /\ [](held.op \in {"Nodes", "Neighbors", "Edges"} => held.val = held.orig)
    /\ [][(last'.op = "Write" /\ last'.args[1] \in {"Nodes", "Neighbors", "Edges"})
              => g' = g]_vars

\* C13 witness: the caller holds the neighbours of a node that has since got
\* another outgoing edge.
C13_Witness ==
    /\ held.op = "Neighbors"
    /\ last.op = "AddEdge" /\ ~last.panic
    /\ last.args[1] = held.args[1]
    /\ Len(held.val) = 1

\* C17: the DTO that ToDTO returned is not changed by later AddNode/AddEdge
\* calls on the graph.
C17_DTOSnapshot == held.op = "ToDTO" => held.val = held.orig
\* The graph obtained from an empty one by calling, for each item in order,
\* AddNode(item.This()) and then AddEdge(e.From, e.To) for each of its edges.
RECURSIVE ReplayEdges(_, _, _)
ReplayEdges(gr, edges, slack) ==
    IF edges = <<>>
    THEN [g |-> gr, panic |-> FALSE]
    ELSE LET r == AddEdge(gr, Head(edges).From, Head(edges).To, slack, slack)
         IN  IF r.panic THEN r ELSE ReplayEdges(r.g, Tail(edges), slack)

RECURSIVE Replay(_, _, _)
Replay(gr, l, slack) ==
    IF l = <<>>
    THEN [g |-> gr, panic |-> FALSE]
    ELSE LET r == ReplayEdges(AddNode(gr, Head(l).This, slack), Head(l).Edges, slack)
         IN  IF r.panic THEN r ELSE Replay(r.g, Tail(l), slack)

DeclaredEdges(l) == Flatten([i \in 1 .. Len(l) |-> l[i].Edges])

\* C14: NewGraphByNodeList(items) returns the graph that the replay of the
\* items through AddNode and AddEdge builds; its node set is the item
\* identities and the edge endpoints, EdgeCount() is the number of declared
\* edges, and HasEdge holds for every declared edge.
C14_NodeListIsReplay ==
    last.op = "NewGraphByNodeList" =>
        LET l == last.args[1]
            declared == DeclaredEdges(l)
        IN  /\ ~last.panic
            /\ \E slack \in Slacks :
                  Replay(NewGraph, l, slack) = [g |-> last.ret, panic |-> FALSE]
            /\ DOMAIN last.ret.nodes =
                  {l[i].This : i \in DOMAIN l}
                      \cup {declared[k].From : k \in DOMAIN declared}
                      \cup {declared[k].To : k \in DOMAIN declared}
            /\ EdgeCount(last.ret) = Len(declared)
            /\ \A k \in DOMAIN declared :
                  HasEdge(last.ret, declared[k].From, declared[k].To) = Ret(TRUE)

\* C14 without the faulting imports: whenever NewGraphByNodeList returns, the
\* graph is the replay's, with the declared nodes and edges.
C14_ReturnedIsReplay ==
    (last.op = "NewGraphByNodeList" /\ ~last.panic) =>
        LET l == last.args[1]
            declared == DeclaredEdges(l)
        IN  /\ \E slack \in Slacks :
                  Replay(NewGraph, l, slack) = [g |-> last.ret, panic |-> FALSE]
            /\ DOMAIN last.ret.nodes =
                  {l[i].This : i \in DOMAIN l}
                      \cup {declared[k].From : k \in DOMAIN declared}
                      \cup {declared[k].To : k \in DOMAIN declared}
            /\ EdgeCount(last.ret) = Len(declared)
            /\ \A k \in DOMAIN declared :
                  HasEdge(last.ret, declared[k].From, declared[k].To) = Ret(TRUE)
\* The `to` arguments of the AddEdge(v, to) calls made so far, in call order.
CalledTo(v) == [k \in 1 .. Len(calls[v]) |-> calls[v][k].to]

\* C15: for a value v that is a node, Neighbors(v) returns the `to` arguments
\* of the AddEdge(v, to) calls made so far, in call order and with
\* repetitions, as many as v's adjacency entry holds.
C15_NeighborsAreCalls ==
    (last.op = "Neighbors" /\ last.args[1] \in DOMAIN g.nodes) =>
        /\ ~last.panic
        /\ last.ret = CalledTo(last.args[1])
        /\ Len(last.ret) = Len(At(g.adj, g.nodes[last.args[1]]))

\* C16: HasEdge(from, to) is true exactly when AddEdge(from, to) has been
\* called with that ordered pair; in particular it is false when an endpoint
\* is not a node, and from->to alone does not give to->from.
C16_HasEdgeExact ==
    last.op = "HasEdge" =>
        /\ ~last.panic
        /\ last.ret = (\E k \in DOMAIN calls[last.args[1]] :
                          calls[last.args[1]][k].to = last.args[2])
\* C18: String() completes and renders "Graph:" followed by one line per
\* node in ascending index order, "  <node>: [<n1>, <n2>, ...]", the
\* neighbours being the targets of the node's AddEdge calls in call order.
C18_Rendering ==
    last.op = "String" =>
        /\ ~last.panic
        /\ last.ret =
              "Graph:\n" \o
              Concat([k \in 1 .. NodeCount(g) |->
                         LET v == CHOOSE n \in DOMAIN g.nodes : g.nodes[n] = k - 1
                         IN  "  " \o ToString(v) \o ": ["
                                  \o JoinComma([j \in 1 .. Len(CalledTo(v)) |->
                                                   ToString(CalledTo(v)[j])])
                                  \o "]\n"])
QueryOps ==
    {"Nodes", "Edges", "Neighbors", "HasNode", "HasEdge", "NodeCount",
     "EdgeCount", "String", "ToDTO"}

\* C20: a call of Nodes, Edges, Neighbors, HasNode, HasEdge, NodeCount,
\* EdgeCount, String or ToDTO, with any argument, leaves the node-to-index
\* map and the adjacency table as they were, so NodeCount() and EdgeCount()
\* are the same before and after it.
C20_QueriesFrame ==
    [][last'.op \in QueryOps =>
          /\ g'.nodes = g.nodes
          /\ g'.adj = g.adj
          /\ NodeCount(g') = NodeCount(g)
          /\ EdgeCount(g') = EdgeCount(g)]_vars

\* C20 witness: Neighbors of a value that is not a node has returned on a
\* graph of one node and one edge, and the graph still has one node.
C20_Witness ==
    /\ last.op = "Neighbors"
    /\ ~last.panic
    /\ last.args[1] \notin DOMAIN g.nodes
    /\ NodeCount(g) = 1
    /\ EdgeCount(g) = 1
\* C19: every value stored in an adjacency entry is the index of exactly one
\* node (0 <= j < len(nodes)), and every adjacency entry at a position that
\* is not the index of a node is empty.
C19_AdjEntriesValid ==
    /\ \A p \in DOMAIN g.adj : \A k \in DOMAIN g.adj[p] :
          /\ g.adj[p][k] \in 0 .. Cardinality(DOMAIN g.nodes) - 1
          /\ Cardinality({v \in DOMAIN g.nodes : g.nodes[v] = g.adj[p][k]}) = 1
    /\ \A p \in DOMAIN g.adj :
          (\A v \in DOMAIN g.nodes : g.nodes[v] # p - 1) => g.adj[p] = <<>>

\* C19 witness: NewGraphByNodeList has returned a graph with more adjacency
\* entries than nodes and at least two stored edges.
C19_Witness ==
    /\ last.op = "NewGraphByNodeList"
    /\ ~last.panic
    /\ Len(g.adj) > NodeCount(g)
    /\ EdgeCount(g) > 1
====
